---- MODULE Spec2Model ----
(***************************************************************************)
(* RTSP camera monitor (src/rtspMonitor.py, class CameraMonitorGUI).       *)
(*                                                                         *)
(* Threads of control:                                                     *)
(*   - the Tk main thread, which runs one handler at a time                *)
(*     (start_monitoring, stop_monitoring, update_log_display,             *)
(*     update_graphs);                                                     *)
(*   - one daemon thread per start_monitoring call, running                *)
(*     run_ffmpeg_monitor; stop_monitoring never joins it, so threads of   *)
(*     earlier sessions may still be alive;                                *)
(*   - one ffmpeg probe process per successful subprocess.Popen.           *)
(*                                                                         *)
(* Granularity: one step per Python statement that touches state shared    *)
(* between threads; a blocking call (readline, read, wait) is split into   *)
(* the evaluation of its receiver (self.ffmpeg_process is re-read every    *)
(* time the code names it) and the return of the call.  Thread t is the    *)
(* thread of the t-th session and spawns process t.                        *)
(***************************************************************************)
EXTENDS Integers, Sequences, FiniteSets, TLC

\* ---- bounds of the model ----
MaxSessions == 2      \* threads: start_monitoring calls that pass validation
MaxLines    == 2      \* lines the probes write to stderr, all sessions together
MaxFaults   == 2      \* spawn failures, file failures and clock set-backs
MaxSnaps    == 2      \* points update_graphs appends to one session's series

\* ---- program constants ----
SpeedWindow == 50     \* deque(maxlen=50)

Threads == 1..MaxSessions
None    == 0          \* self.ffmpeg_process = None / thread holds no reference
Absent  == -1         \* a metric the line does not carry (Python None)
Bad     == -2         \* a regex capture float()/int() rejects, e.g. "1.2.3"

\* What the five regexes capture from a line of probe output: the number
\* captured, Bad for a capture that is no number, Absent for no match.
FpsLine    == [fps |-> 10, speed |-> 1, missed |-> Absent, max_delay |-> FALSE, dc |-> Absent]
MissedLine == [fps |-> Absent, speed |-> Absent, missed |-> 3, max_delay |-> FALSE, dc |-> Absent]
FastLine   == [fps |-> 20, speed |-> 2, missed |-> Absent, max_delay |-> FALSE, dc |-> Absent]
ZeroLine   == [fps |-> Absent, speed |-> Absent, missed |-> 0, max_delay |-> FALSE, dc |-> Absent]
PlainLine  == [fps |-> Absent, speed |-> Absent, missed |-> Absent, max_delay |-> FALSE, dc |-> Absent]
Lines      == {FpsLine, MissedLine, ZeroLine, PlainLine}

NoLine == [src |-> 0, seq |-> 0, text |-> PlainLine]

VARIABLES
  \* --- CameraMonitorGUI fields ---
  ffmpeg_process,        \* None or the process the handle refers to
  monitor_thread,        \* the latest thread created (0: none yet)
  running_event,         \* threading.Event
  log_queue,             \* queue.Queue of messages
  total_frames, sum_fps, speed_values, missed_packets_count,
  graph_data,            \* the five graph_* lists, one record per point
  start_button, stop_button, status_var,
  \* --- Tk event loop ---
  gui,                   \* position of the main thread ("idle": in mainloop)
  stop_caller,           \* who called stop_monitoring: "button" or "start"
  gui_wait,              \* process the main thread's wait(timeout=2) is on
  after_log, after_graphs, \* pending after() callbacks of each kind
  \* --- run_ffmpeg_monitor threads ---
  pc,                    \* position of each thread
  line,                  \* the line a thread is processing
  ref,                   \* process a thread's blocking call is on
  csv_exists,            \* the thread's local csv_exists
  missed_read,           \* the counter value a thread read at line 325
  buf,                   \* rows in the thread's csvfile buffer, not yet flushed
  \* --- environment ---
  proc,                  \* "unborn", "alive", "term" (SIGTERM pending), "dead"
  emitted, consumed,     \* lines each probe wrote / lines read from its pipe
  csv_present,           \* os.path.isfile(output_csv)
  csv_file,              \* the rows flushed to the log file, header included
  budget,                \* what the environment may still do: sessions the
                         \* user starts, lines the probes write (how many,
                         \* of which kinds), faults
  \* --- history (not program state) ---
  published,             \* per thread, every message it put on log_queue
  parsed,                \* every line readline returned
  folded,                \* lines folded into the aggregator since the reset
  missed_folded,         \* sum of the values line 325 added since line 237
  io_failed              \* threads that met an open/write/flush failure

vars == << ffmpeg_process, monitor_thread, running_event, log_queue,
           total_frames, sum_fps, speed_values, missed_packets_count,
           graph_data, start_button, stop_button, status_var,
           gui, stop_caller, gui_wait, after_log, after_graphs,
           pc, line, ref, csv_exists, missed_read, buf,
           proc, emitted, consumed, csv_present, csv_file, budget,
           published, parsed, folded, missed_folded, io_failed >>

guiVars  == << start_button, stop_button, status_var, gui, stop_caller,
               gui_wait, after_log, after_graphs, graph_data, monitor_thread >>
statVars == << total_frames, sum_fps, speed_values, missed_packets_count, folded,
              missed_folded >>
fileVars == << csv_present, csv_file, buf, csv_exists, io_failed >>
envVars  == << proc, emitted, consumed, budget >>

\* The state after CameraMonitorGUI.__init__ (lines 29-66, 103-109, 166),
\* with the environment's budget b.
InitWith(b) ==
  /\ budget = b
  /\ ffmpeg_process = None
  /\ monitor_thread = 0
  /\ running_event = FALSE
  /\ log_queue = << >>
  /\ total_frames = 0
  /\ sum_fps = 0
  /\ speed_values = << >>
  /\ missed_packets_count = 0
  /\ graph_data = << >>
  /\ start_button = "normal"
  /\ stop_button = "disabled"
  /\ status_var = "Idle"
  /\ gui = "idle"
  /\ stop_caller = "button"
  /\ gui_wait = None
  /\ after_log = 0
  /\ after_graphs = 0
  /\ pc = [t \in Threads |-> "none"]
  /\ line = [t \in Threads |-> NoLine]
  /\ ref = [t \in Threads |-> None]
  /\ csv_exists = [t \in Threads |-> FALSE]
  /\ missed_read = [t \in Threads |-> 0]
  /\ buf = [t \in Threads |-> << >>]
  /\ proc = [p \in Threads |-> "unborn"]
  /\ emitted = [p \in Threads |-> 0]
  /\ consumed = [p \in Threads |-> 0]
  /\ csv_present = FALSE
  /\ csv_file = << >>
  /\ published = [t \in Threads |-> << >>]
  /\ parsed = {}
  /\ folded = << >>
  /\ missed_folded = 0
  /\ io_failed = {}

Init ==
  InitWith([sessions |-> MaxSessions, lines |-> MaxLines, faults |-> MaxFaults,
            kinds |-> Lines])

\* ---------------------------------------------------------------------
\* Pure helpers
\* ---------------------------------------------------------------------

\* float()/int() of a capture: ValueError degrades the field to None.
Convert(capture) == IF capture = Bad THEN Absent ELSE capture

parse_ffmpeg_line(text) ==
  [ fps            |-> Convert(text.fps),
    speed          |-> Convert(text.speed),
    missed_packets |-> Convert(text.missed),
    max_delay      |-> text.max_delay,
    decode_errors  |-> text.dc ]

\* The row writer.writerow receives for a line (timestamp left out; src/seq
\* stand for the raw line text, which is distinct for distinct lines).
\* "x if x is not None else ''" for fps and speed, but the truthiness test
\* "x if x else ''" for missed_packets and decode_errors.
CsvRow(l) ==
  LET r == parse_ffmpeg_line(l.text) IN
  [ src    |-> l.src,
    seq    |-> l.seq,
    fps    |-> r.fps,
    speed  |-> r.speed,
    missed |-> IF r.missed_packets = Absent \/ r.missed_packets = 0
               THEN Absent ELSE r.missed_packets,
    max_delay_reached |-> IF r.max_delay THEN 1 ELSE 0,
    decode_errors     |-> r.decode_errors ]

HeaderRow == [ src |-> 0, seq |-> 0, fps |-> Absent, speed |-> Absent,
               missed |-> Absent, max_delay_reached |-> 0,
               decode_errors |-> Absent ]

\* DequeAppend with a plausible bug: at capacity the new observation is
\* dropped instead of the oldest.
DequeAppend_KeepsOldest(d, x) ==
  IF Len(d) < SpeedWindow THEN Append(d, x) ELSE d

\* deque(maxlen=50).append
DequeAppend(d, x) ==
  IF Len(d) < SpeedWindow THEN Append(d, x) ELSE Append(Tail(d), x)

Range(f) == { f[i] : i \in DOMAIN f }

RECURSIVE SeqSum(_)
SeqSum(s) == IF s = << >> THEN 0 ELSE Head(s) + SeqSum(Tail(s))

Msg(t, kind, l) == << t, kind, l >>

\* The first statement of "Update stats" a parsed line reaches.
AfterParse(l) ==
  LET r == parse_ffmpeg_line(l.text) IN
  IF r.fps # Absent THEN "l320"
  ELSE IF r.speed # Absent THEN "l323"
  ELSE IF r.missed_packets # Absent THEN "l325"
  ELSE "l327"

AfterFps(l) ==
  LET r == parse_ffmpeg_line(l.text) IN
  IF r.speed # Absent THEN "l323"
  ELSE IF r.missed_packets # Absent THEN "l325"
  ELSE "l327"

AfterSpeed(l) ==
  IF parse_ffmpeg_line(l.text).missed_packets # Absent THEN "l325" ELSE "l327"

Running(p) == proc[p] \in {"alive", "term"}     \* poll() is None

\* ---------------------------------------------------------------------
\* Environment: the probe processes
\* ---------------------------------------------------------------------

\* The environment injects a failure (a spawn or a file operation fails).
Fault ==
  /\ budget.faults > 0
  /\ budget' = [budget EXCEPT !.faults = @ - 1]

\* The probe writes one more line to its stderr pipe.
ProbeEmit(p) ==
  /\ Running(p)
  /\ budget.lines > 0
  /\ budget' = [budget EXCEPT !.lines = @ - 1]
  /\ emitted' = [emitted EXCEPT ![p] = @ + 1]
  /\ UNCHANGED << ffmpeg_process, running_event, log_queue, published, parsed,
                  pc, line, ref, proc, consumed >>
  /\ UNCHANGED << guiVars, statVars, fileVars >>
  /\ UNCHANGED missed_read

\* The probe exits: on its own (stream ended, error) or after SIGTERM.
ProbeExit(p) ==
  /\ Running(p)
  /\ proc' = [proc EXCEPT ![p] = "dead"]
  /\ UNCHANGED << ffmpeg_process, running_event, log_queue, published, parsed,
                  pc, line, ref, emitted, consumed, budget >>
  /\ UNCHANGED << guiVars, statVars, fileVars >>
  /\ UNCHANGED missed_read


\* ---------------------------------------------------------------------
\* run_ffmpeg_monitor, thread t
\* ---------------------------------------------------------------------

Goto(t, where) == pc' = [pc EXCEPT ![t] = where]

Put(m) ==
  /\ log_queue' = Append(log_queue, m)
  /\ published' = [published EXCEPT ![m[1]] = Append(@, m)]

\* An exception raised inside "with open(...)": the block is left, which
\* closes the file; close flushes what the buffer holds, or fails to.
\* Either way the "except Exception" handler (line 338) runs next.
RaiseInWith(t) ==
  /\ Goto(t, "l339")
  /\ \/ /\ csv_file' = csv_file \o buf[t]
        /\ buf' = [buf EXCEPT ![t] = << >>]
        /\ UNCHANGED budget
     \/ /\ buf[t] # << >>
        /\ Fault
        /\ buf' = [buf EXCEPT ![t] = << >>]
        /\ UNCHANGED csv_file

\* The same, for a statement that itself failed on the file.
FailInWith(t) ==
  /\ Goto(t, "l339")
  /\ Fault
  /\ io_failed' = io_failed \cup {t}
  /\ \/ /\ csv_file' = csv_file \o buf[t]
        /\ buf' = [buf EXCEPT ![t] = << >>]
     \/ /\ buf[t] # << >>
        /\ buf' = [buf EXCEPT ![t] = << >>]
        /\ UNCHANGED csv_file

\* Lines 283-294: subprocess.Popen.  It succeeds, raises FileNotFoundError
\* (caught: message, then line 293) or raises another OSError such as
\* PermissionError, which no handler catches.
T_Popen(t) ==
  /\ pc[t] = "l283"
  /\ \/ /\ proc' = [proc EXCEPT ![t] = "alive"]
        /\ ffmpeg_process' = t
        /\ Goto(t, "l297")
        /\ UNCHANGED << log_queue, published, budget >>
     \/ /\ Fault
        /\ Put(Msg(t, "ffmpeg_not_found", NoLine))
        /\ Goto(t, "l293")
        /\ UNCHANGED << proc, ffmpeg_process >>
     \/ /\ Fault
        /\ Goto(t, "crashed")
        /\ UNCHANGED << proc, ffmpeg_process, log_queue, published >>
  /\ UNCHANGED << running_event, parsed, line, ref, emitted, consumed >>
  /\ UNCHANGED << guiVars, statVars, fileVars >>
  /\ UNCHANGED missed_read

\* Lines 293-294 and 300-301: running_event.clear(); return
T_ClearRunning(t) ==
  /\ pc[t] \in {"l293", "l300"}
  /\ running_event' = FALSE
  /\ Goto(t, "done")
  /\ UNCHANGED << ffmpeg_process, log_queue, published, parsed, line, ref >>
  /\ UNCHANGED << guiVars, statVars, fileVars, envVars >>
  /\ UNCHANGED missed_read

\* Lines 296-297: after time.sleep(1), "if self.ffmpeg_process.poll() is not
\* None".  The handle is read again: it is whatever start/stop or another
\* thread last stored.  None has no poll(): AttributeError, outside any try.
T_PollAfterSleep(t) ==
  /\ pc[t] = "l297"
  /\ IF ffmpeg_process = None THEN Goto(t, "crashed")
     ELSE IF Running(ffmpeg_process) THEN Goto(t, "l303")
     ELSE Goto(t, "l298")
  /\ UNCHANGED << ffmpeg_process, running_event, log_queue, published, parsed,
                  line, ref >>
  /\ UNCHANGED << guiVars, statVars, fileVars, envVars >>
  /\ UNCHANGED missed_read

\* Line 298: leftover = self.ffmpeg_process.stderr.read(), receiver first.
T_LeftoverCall(t) ==
  /\ pc[t] = "l298"
  /\ IF ffmpeg_process = None
     THEN Goto(t, "crashed") /\ UNCHANGED ref
     ELSE Goto(t, "l298_read") /\ ref' = [ref EXCEPT ![t] = ffmpeg_process]
  /\ UNCHANGED << ffmpeg_process, running_event, log_queue, published, parsed,
                  line >>
  /\ UNCHANGED << guiVars, statVars, fileVars, envVars >>
  /\ UNCHANGED missed_read

\* Lines 298-299: read() returns at end of stream with all that was left;
\* the failure message is put on the queue.
T_LeftoverReturn(t) ==
  /\ pc[t] = "l298_read"
  /\ ~Running(ref[t])
  /\ consumed' = [consumed EXCEPT ![ref[t]] = emitted[ref[t]]]
  /\ ref' = [ref EXCEPT ![t] = None]
  /\ Put(Msg(t, "failed_to_start", NoLine))
  /\ Goto(t, "l300")
  /\ UNCHANGED << ffmpeg_process, running_event, parsed, line, proc, emitted,
                  budget >>
  /\ UNCHANGED << guiVars, statVars, fileVars >>
  /\ UNCHANGED missed_read

\* Line 303: csv_exists = os.path.isfile(output_csv)
T_CsvExists(t) ==
  /\ pc[t] = "l303"
  /\ csv_exists' = [csv_exists EXCEPT ![t] = csv_present]
  /\ Goto(t, "l305")
  /\ UNCHANGED << ffmpeg_process, running_event, log_queue, published, parsed,
                  line, ref, csv_present, csv_file, buf, io_failed >>
  /\ UNCHANGED << guiVars, statVars, envVars >>
  /\ UNCHANGED missed_read

\* Lines 305-309: open in append mode (creates the file) and, if csv_exists
\* was false, writerow(header) into the file object's buffer.  open may
\* raise (caught at line 338).
T_Open(t) ==
  /\ pc[t] = "l305"
  /\ \/ /\ csv_present' = TRUE
        /\ buf' = [buf EXCEPT ![t] = IF csv_exists[t] THEN << >> ELSE << HeaderRow >>]
        /\ Goto(t, "l310")
        /\ UNCHANGED << io_failed, budget >>
     \/ /\ Fault
        /\ io_failed' = io_failed \cup {t}
        /\ Goto(t, "l339")
        /\ UNCHANGED << csv_present, buf >>
  /\ UNCHANGED << ffmpeg_process, running_event, log_queue, published, parsed,
                  line, ref, csv_exists, csv_file >>
  /\ UNCHANGED << guiVars, statVars, proc, emitted, consumed >>
  /\ UNCHANGED missed_read

\* Leaving the with block normally closes the file: the buffer is flushed,
\* or the flush fails and the exception is caught at line 338.
CloseCsv(t) ==
  \/ /\ csv_file' = csv_file \o buf[t]
     /\ buf' = [buf EXCEPT ![t] = << >>]
     /\ Goto(t, "l341")
     /\ UNCHANGED << io_failed, budget >>
  \/ /\ buf[t] # << >>
     /\ Fault
     /\ buf' = [buf EXCEPT ![t] = << >>]
     /\ io_failed' = io_failed \cup {t}
     /\ Goto(t, "l339")
     /\ UNCHANGED csv_file

\* Line 310: while self.running_event.is_set()
T_LoopTest(t) ==
  /\ pc[t] = "l310"
  /\ IF running_event
     THEN Goto(t, "l311") /\ UNCHANGED << csv_file, buf, io_failed, budget >>
     ELSE CloseCsv(t)
  /\ UNCHANGED << ffmpeg_process, running_event, log_queue, published, parsed,
                  line, ref, csv_present, csv_exists >>
  /\ UNCHANGED << guiVars, statVars, proc, emitted, consumed >>
  /\ UNCHANGED missed_read

\* Line 311: self.ffmpeg_process.stderr, the receiver of readline().  With
\* the handle None this is an AttributeError inside the try block.
T_ReadlineCall(t) ==
  /\ pc[t] = "l311"
  /\ IF ffmpeg_process = None
     THEN RaiseInWith(t) /\ UNCHANGED ref
     ELSE /\ Goto(t, "l311_read")
          /\ ref' = [ref EXCEPT ![t] = ffmpeg_process]
          /\ UNCHANGED << csv_file, buf, budget >>
  /\ UNCHANGED << ffmpeg_process, running_event, log_queue, published, parsed,
                  line, csv_present, csv_exists, io_failed >>
  /\ UNCHANGED << guiVars, statVars, proc, emitted, consumed >>
  /\ UNCHANGED missed_read

\* Lines 311-316: readline() returns the next line of the pipe, or "" at
\* end of stream (break); the line is stripped and parsed.
T_ReadlineReturn(t) ==
  /\ pc[t] = "l311_read"
  /\ LET p == ref[t] IN
     \/ /\ consumed[p] < emitted[p]
        /\ \E text \in budget.kinds :
             LET l == [src |-> p, seq |-> consumed[p] + 1, text |-> text] IN
             /\ line' = [line EXCEPT ![t] = l]
             /\ parsed' = parsed \cup {l}
             /\ Goto(t, AfterParse(l))
        /\ consumed' = [consumed EXCEPT ![p] = @ + 1]
        /\ UNCHANGED << csv_file, buf, io_failed, budget >>
     \/ /\ consumed[p] = emitted[p]
        /\ ~Running(p)
        /\ CloseCsv(t)
        /\ UNCHANGED << line, parsed, consumed >>
  /\ ref' = [ref EXCEPT ![t] = None]
  /\ UNCHANGED << ffmpeg_process, running_event, log_queue, published,
                  csv_present, csv_exists, proc, emitted >>
  /\ UNCHANGED << guiVars, statVars >>
  /\ UNCHANGED missed_read

\* Line 320: self.total_frames += 1
T_Frames(t) ==
  /\ pc[t] = "l320"
  /\ total_frames' = total_frames + 1
  /\ folded' = Append(folded, line[t])
  /\ Goto(t, "l321")
  /\ UNCHANGED << sum_fps, speed_values, missed_packets_count >>
  /\ UNCHANGED << ffmpeg_process, running_event, log_queue, published, parsed,
                  line, ref >>
  /\ UNCHANGED << guiVars, fileVars, envVars >>
  /\ UNCHANGED missed_read
  /\ UNCHANGED missed_folded

\* Line 321: self.sum_fps += parsed["fps"]
T_SumFps(t) ==
  /\ pc[t] = "l321"
  /\ sum_fps' = sum_fps + parse_ffmpeg_line(line[t].text).fps
  /\ Goto(t, AfterFps(line[t]))
  /\ UNCHANGED << total_frames, speed_values, missed_packets_count, folded >>
  /\ UNCHANGED << ffmpeg_process, running_event, log_queue, published, parsed,
                  line, ref >>
  /\ UNCHANGED << guiVars, fileVars, envVars >>
  /\ UNCHANGED missed_read
  /\ UNCHANGED missed_folded

\* A line enters the history of folded lines with its first update.
FoldedWith(l) ==
  IF folded # << >> /\ folded[Len(folded)] = l THEN folded ELSE Append(folded, l)

\* Line 323: self.speed_values.append(parsed["speed"])
T_Speed(t) ==
  /\ pc[t] = "l323"
  /\ speed_values' = DequeAppend(speed_values, parse_ffmpeg_line(line[t].text).speed)
  /\ folded' = FoldedWith(line[t])
  /\ Goto(t, AfterSpeed(line[t]))
  /\ UNCHANGED << total_frames, sum_fps, missed_packets_count >>
  /\ UNCHANGED << ffmpeg_process, running_event, log_queue, published, parsed,
                  line, ref >>
  /\ UNCHANGED << guiVars, fileVars, envVars >>
  /\ UNCHANGED missed_read
  /\ UNCHANGED missed_folded

\* Line 325: self.missed_packets_count += parsed["missed_packets"] is a
\* read of the attribute, an addition and a store; nothing makes the three
\* one step with respect to the other threads.  First the read:
T_MissedRead(t) ==
  /\ pc[t] = "l325"
  /\ missed_read' = [missed_read EXCEPT ![t] = missed_packets_count]
  /\ Goto(t, "l325_store")
  /\ UNCHANGED << ffmpeg_process, running_event, log_queue, published, parsed,
                  line, ref >>
  /\ UNCHANGED << guiVars, statVars, fileVars, envVars >>

\* ... then the store of the sum.
T_Missed(t) ==
  /\ pc[t] = "l325_store"
  /\ missed_packets_count' =
       missed_read[t] + parse_ffmpeg_line(line[t].text).missed_packets
  /\ missed_read' = [missed_read EXCEPT ![t] = 0]
  /\ folded' = FoldedWith(line[t])
  /\ Goto(t, "l327")
  /\ UNCHANGED << total_frames, sum_fps, speed_values >>
  /\ UNCHANGED << ffmpeg_process, running_event, log_queue, published, parsed,
                  line, ref >>
  /\ UNCHANGED << guiVars, fileVars, envVars >>
  /\ missed_folded' = missed_folded + parse_ffmpeg_line(line[t].text).missed_packets

\* T_Writerow with a plausible bug: a row is written only for a line on
\* which some metric matched.
T_Writerow_OnlyMetrics(t) ==
  /\ pc[t] = "l327"
  /\ buf' = [buf EXCEPT ![t] =
               IF line[t].text = PlainLine THEN @ ELSE Append(@, CsvRow(line[t]))]
  /\ Goto(t, "l336")
  /\ UNCHANGED << ffmpeg_process, running_event, log_queue, published, parsed,
                  line, ref, csv_present, csv_exists, csv_file, io_failed >>
  /\ UNCHANGED << guiVars, statVars, envVars >>
  /\ UNCHANGED missed_read

\* Lines 327-335: writer.writerow([...]) into the file object's buffer; a
\* write error is caught at line 338.
T_Writerow(t) ==
  /\ pc[t] = "l327"
  /\ \/ /\ buf' = [buf EXCEPT ![t] = Append(@, CsvRow(line[t]))]
        /\ Goto(t, "l336")
        /\ UNCHANGED << csv_file, io_failed, budget >>
     \/ FailInWith(t)
  /\ UNCHANGED << ffmpeg_process, running_event, log_queue, published, parsed,
                  line, ref, csv_present, csv_exists >>
  /\ UNCHANGED << guiVars, statVars, proc, emitted, consumed >>
  /\ UNCHANGED missed_read

\* Line 336: csvfile.flush(); an I/O error is caught at line 338.
T_Flush(t) ==
  /\ pc[t] = "l336"
  /\ \/ /\ csv_file' = csv_file \o buf[t]
        /\ buf' = [buf EXCEPT ![t] = << >>]
        /\ Goto(t, "l337")
        /\ UNCHANGED << io_failed, budget >>
     \/ FailInWith(t)
  /\ UNCHANGED << ffmpeg_process, running_event, log_queue, published, parsed,
                  line, ref, csv_present, csv_exists >>
  /\ UNCHANGED << guiVars, statVars, proc, emitted, consumed >>
  /\ UNCHANGED missed_read

\* Line 337: self.log_queue.put(f"{timestamp_str} -> {line}")
T_PutLine(t) ==
  /\ pc[t] = "l337"
  /\ Put(Msg(t, "raw", line[t]))
  /\ Goto(t, "l310")
  /\ UNCHANGED << ffmpeg_process, running_event, parsed, line, ref >>
  /\ UNCHANGED << guiVars, statVars, fileVars, envVars >>
  /\ UNCHANGED missed_read

\* Lines 338-339: except Exception as e: put("Error writing CSV: ...")
T_PutCsvError(t) ==
  /\ pc[t] = "l339"
  /\ Put(Msg(t, "csv_error", NoLine))
  /\ Goto(t, "l341")
  /\ UNCHANGED << ffmpeg_process, running_event, parsed, line, ref >>
  /\ UNCHANGED << guiVars, statVars, fileVars, envVars >>
  /\ UNCHANGED missed_read

\* Line 341: if self.ffmpeg_process and self.ffmpeg_process.poll() is None
T_CheckAlive(t) ==
  /\ pc[t] = "l341"
  /\ IF ffmpeg_process # None /\ Running(ffmpeg_process)
     THEN Goto(t, "l342") ELSE Goto(t, "l347")
  /\ UNCHANGED << ffmpeg_process, running_event, log_queue, published, parsed,
                  line, ref >>
  /\ UNCHANGED << guiVars, statVars, fileVars, envVars >>
  /\ UNCHANGED missed_read

\* Line 342: self.ffmpeg_process.terminate() (no handler for AttributeError)
T_Terminate(t) ==
  /\ pc[t] = "l342"
  /\ IF ffmpeg_process = None
     THEN Goto(t, "crashed") /\ UNCHANGED proc
     ELSE /\ Goto(t, "l344")
          /\ proc' = [proc EXCEPT ![ffmpeg_process] =
                        IF @ = "alive" THEN "term" ELSE @]
  /\ UNCHANGED << ffmpeg_process, running_event, log_queue, published, parsed,
                  line, ref, emitted, consumed, budget >>
  /\ UNCHANGED << guiVars, statVars, fileVars >>
  /\ UNCHANGED missed_read

\* Line 344: self.ffmpeg_process.wait(timeout=2), receiver first.
T_WaitCall(t) ==
  /\ pc[t] = "l344"
  /\ IF ffmpeg_process = None
     THEN Goto(t, "crashed") /\ UNCHANGED ref
     ELSE Goto(t, "l344_wait") /\ ref' = [ref EXCEPT ![t] = ffmpeg_process]
  /\ UNCHANGED << ffmpeg_process, running_event, log_queue, published, parsed,
                  line >>
  /\ UNCHANGED << guiVars, statVars, fileVars, envVars >>
  /\ UNCHANGED missed_read

\* Lines 344-345: wait returns once the process has exited; if it has not
\* after 2 seconds, TimeoutExpired leads to line 346.
T_WaitReturn(t) ==
  /\ pc[t] = "l344_wait"
  /\ IF Running(ref[t]) THEN Goto(t, "l346") ELSE Goto(t, "l347")
  /\ ref' = [ref EXCEPT ![t] = None]
  /\ UNCHANGED << ffmpeg_process, running_event, log_queue, published, parsed,
                  line >>
  /\ UNCHANGED << guiVars, statVars, fileVars, envVars >>
  /\ UNCHANGED missed_read

\* Line 346: self.ffmpeg_process.kill()
T_Kill(t) ==
  /\ pc[t] = "l346"
  /\ IF ffmpeg_process = None
     THEN Goto(t, "crashed") /\ UNCHANGED proc
     ELSE /\ Goto(t, "l347")
          /\ proc' = [proc EXCEPT ![ffmpeg_process] = "dead"]
  /\ UNCHANGED << ffmpeg_process, running_event, log_queue, published, parsed,
                  line, ref, emitted, consumed, budget >>
  /\ UNCHANGED << guiVars, statVars, fileVars >>
  /\ UNCHANGED missed_read

\* Line 347: self.ffmpeg_process = None
T_ClearHandle(t) ==
  /\ pc[t] = "l347"
  /\ ffmpeg_process' = None
  /\ Goto(t, "l348")
  /\ UNCHANGED << running_event, log_queue, published, parsed, line, ref >>
  /\ UNCHANGED << guiVars, statVars, fileVars, envVars >>
  /\ UNCHANGED missed_read

\* Line 348: self.log_queue.put("Monitoring stopped.\n"); the thread ends.
T_PutStopped(t) ==
  /\ pc[t] = "l348"
  /\ Put(Msg(t, "stopped", NoLine))
  /\ Goto(t, "done")
  /\ UNCHANGED << ffmpeg_process, running_event, parsed, line, ref >>
  /\ UNCHANGED << guiVars, statVars, fileVars, envVars >>
  /\ UNCHANGED missed_read


\* ---------------------------------------------------------------------
\* Main thread: stop_monitoring
\* ---------------------------------------------------------------------

thrVars == << pc, line, ref, parsed, missed_read >>
chanVars == << log_queue, published >>

\* The Stop button is pressed (it is enabled only after a start).
StopClicked ==
  /\ gui = "idle"
  /\ stop_button = "normal"
  /\ gui' = "l264"
  /\ stop_caller' = "button"
  /\ UNCHANGED << ffmpeg_process, running_event, start_button, stop_button,
                  status_var, gui_wait, after_log, after_graphs, graph_data,
                  monitor_thread >>
  /\ UNCHANGED << thrVars, chanVars, statVars, fileVars, envVars >>

\* An exception in a Tk callback ends the callback (and start_monitoring
\* with it when it was the caller); the main loop goes on.
CallbackRaises == gui' = "idle"

\* Line 264: self.running_event.clear()
S_ClearRunning ==
  /\ gui = "l264"
  /\ running_event' = FALSE
  /\ gui' = "l265"
  /\ UNCHANGED << ffmpeg_process, start_button, stop_button, status_var,
                  stop_caller, gui_wait, after_log, after_graphs, graph_data,
                  monitor_thread >>
  /\ UNCHANGED << thrVars, chanVars, statVars, fileVars, envVars >>

\* Line 265: if self.ffmpeg_process and self.ffmpeg_process.poll() is None
S_CheckAlive ==
  /\ gui = "l265"
  /\ gui' = IF ffmpeg_process # None /\ Running(ffmpeg_process)
            THEN "l266" ELSE "l271"
  /\ UNCHANGED << ffmpeg_process, running_event, start_button, stop_button,
                  status_var, stop_caller, gui_wait, after_log, after_graphs,
                  graph_data, monitor_thread >>
  /\ UNCHANGED << thrVars, chanVars, statVars, fileVars, envVars >>

\* Line 266: self.ffmpeg_process.terminate()
S_Terminate ==
  /\ gui = "l266"
  /\ IF ffmpeg_process = None
     THEN CallbackRaises /\ UNCHANGED proc
     ELSE /\ gui' = "l268"
          /\ proc' = [proc EXCEPT ![ffmpeg_process] =
                        IF @ = "alive" THEN "term" ELSE @]
  /\ UNCHANGED << ffmpeg_process, running_event, start_button, stop_button,
                  status_var, stop_caller, gui_wait, after_log, after_graphs,
                  graph_data, monitor_thread, emitted, consumed, budget >>
  /\ UNCHANGED << thrVars, chanVars, statVars, fileVars >>

\* Line 268: self.ffmpeg_process.wait(timeout=2), receiver first.
S_WaitCall ==
  /\ gui = "l268"
  /\ IF ffmpeg_process = None
     THEN CallbackRaises /\ UNCHANGED gui_wait
     ELSE gui' = "l268_wait" /\ gui_wait' = ffmpeg_process
  /\ UNCHANGED << ffmpeg_process, running_event, start_button, stop_button,
                  status_var, stop_caller, after_log, after_graphs,
                  graph_data, monitor_thread >>
  /\ UNCHANGED << thrVars, chanVars, statVars, fileVars, envVars >>

\* Lines 268-269: wait returns once the process has exited, or raises
\* TimeoutExpired after 2 seconds if it has not.
S_WaitReturn ==
  /\ gui = "l268_wait"
  /\ gui' = IF Running(gui_wait) THEN "l270" ELSE "l271"
  /\ gui_wait' = None
  /\ UNCHANGED << ffmpeg_process, running_event, start_button, stop_button,
                  status_var, stop_caller, after_log, after_graphs,
                  graph_data, monitor_thread >>
  /\ UNCHANGED << thrVars, chanVars, statVars, fileVars, envVars >>

\* Line 270: self.ffmpeg_process.kill()
S_Kill ==
  /\ gui = "l270"
  /\ IF ffmpeg_process = None
     THEN CallbackRaises /\ UNCHANGED proc
     ELSE /\ gui' = "l271"
          /\ proc' = [proc EXCEPT ![ffmpeg_process] = "dead"]
  /\ UNCHANGED << ffmpeg_process, running_event, start_button, stop_button,
                  status_var, stop_caller, gui_wait, after_log, after_graphs,
                  graph_data, monitor_thread, emitted, consumed, budget >>
  /\ UNCHANGED << thrVars, chanVars, statVars, fileVars >>

\* Lines 271-274: handle = None, Start enabled, Stop disabled, "Stopped";
\* stop_monitoring returns to the main loop or into start_monitoring.
S_Return ==
  /\ gui = "l271"
  /\ ffmpeg_process' = None
  /\ start_button' = "normal"
  /\ stop_button' = "disabled"
  /\ status_var' = "Stopped"
  /\ gui' = IF stop_caller = "start" THEN "l234" ELSE "idle"
  /\ UNCHANGED << running_event, stop_caller, gui_wait, after_log,
                  after_graphs, graph_data, monitor_thread >>
  /\ UNCHANGED << thrVars, chanVars, statVars, fileVars, envVars >>

\* ---------------------------------------------------------------------
\* Main thread: start_monitoring
\* ---------------------------------------------------------------------

\* The Start button is pressed and lines 207-228 accept the input; line 231
\* calls stop_monitoring.
StartClicked ==
  /\ gui = "idle"
  /\ start_button = "normal"
  /\ budget.sessions > 0
  /\ budget' = [budget EXCEPT !.sessions = @ - 1]
  /\ gui' = "l264"
  /\ stop_caller' = "start"
  /\ UNCHANGED << ffmpeg_process, running_event, start_button, stop_button,
                  status_var, gui_wait, after_log, after_graphs, graph_data,
                  monitor_thread >>
  /\ UNCHANGED << thrVars, chanVars, statVars, fileVars, proc, emitted, consumed >>

\* Lines 212-228: the input is rejected (no URL at line 213, the given path
\* is no file at line 220, no ffmpeg on the PATH at line 227): an error
\* dialog is shown, and start_monitoring returns when it is dismissed.
Rejections == {"l213", "l220", "l227"}

\* StartRejected with a plausible bug: the validation runs after the reset
\* of lines 234-244 instead of before it.
StartRejected_AfterReset ==
  /\ gui = "idle"
  /\ start_button = "normal"
  /\ \E why \in Rejections : gui' = why
  /\ total_frames' = 0
  /\ sum_fps' = 0
  /\ speed_values' = << >>
  /\ missed_packets_count' = 0
  /\ graph_data' = << >>
  /\ UNCHANGED << ffmpeg_process, running_event, start_button, stop_button,
                  status_var, stop_caller, gui_wait, after_log, after_graphs,
                  monitor_thread, folded >>
  /\ UNCHANGED << thrVars, chanVars, fileVars, envVars >>
  /\ missed_folded' = 0

StartRejected ==
  /\ gui = "idle"
  /\ start_button = "normal"
  /\ \E why \in Rejections : gui' = why
  /\ UNCHANGED << ffmpeg_process, running_event, start_button, stop_button,
                  status_var, stop_caller, gui_wait, after_log, after_graphs,
                  graph_data, monitor_thread >>
  /\ UNCHANGED << thrVars, chanVars, statVars, fileVars, envVars >>

\* Lines 214, 221, 228: return
G_ErrorDismissed ==
  /\ gui \in Rejections
  /\ gui' = "idle"
  /\ UNCHANGED << ffmpeg_process, running_event, start_button, stop_button,
                  status_var, stop_caller, gui_wait, after_log, after_graphs,
                  graph_data, monitor_thread >>
  /\ UNCHANGED << thrVars, chanVars, statVars, fileVars, envVars >>

startFrame == << ffmpeg_process, running_event, start_button, stop_button,
                 status_var, stop_caller, gui_wait, after_log, after_graphs,
                 graph_data, monitor_thread >>

\* Line 234: self.total_frames = 0
G_ResetFrames ==
  /\ gui = "l234"
  /\ total_frames' = 0
  /\ folded' = << >>
  /\ gui' = "l235"
  /\ UNCHANGED << sum_fps, speed_values, missed_packets_count >>
  /\ UNCHANGED startFrame
  /\ UNCHANGED << thrVars, chanVars, fileVars, envVars >>
  /\ UNCHANGED missed_folded

\* Line 235: self.sum_fps = 0.0
G_ResetSum ==
  /\ gui = "l235"
  /\ sum_fps' = 0
  /\ gui' = "l236"
  /\ UNCHANGED << total_frames, speed_values, missed_packets_count, folded >>
  /\ UNCHANGED startFrame
  /\ UNCHANGED << thrVars, chanVars, fileVars, envVars >>
  /\ UNCHANGED missed_folded

\* Line 236: self.speed_values.clear()
G_ResetSpeed ==
  /\ gui = "l236"
  /\ speed_values' = << >>
  /\ gui' = "l237"
  /\ UNCHANGED << total_frames, sum_fps, missed_packets_count, folded >>
  /\ UNCHANGED startFrame
  /\ UNCHANGED << thrVars, chanVars, fileVars, envVars >>
  /\ UNCHANGED missed_folded

\* Line 237: self.missed_packets_count = 0
G_ResetMissed ==
  /\ gui = "l237"
  /\ missed_packets_count' = 0
  /\ gui' = "l239"
  /\ UNCHANGED << total_frames, sum_fps, speed_values, folded >>
  /\ UNCHANGED startFrame
  /\ UNCHANGED << thrVars, chanVars, fileVars, envVars >>
  /\ missed_folded' = 0

\* Lines 239-248: start_time, the graph lists are cleared, Start disabled,
\* Stop enabled, the log view cleared (state of the main thread only).
G_ResetGraphs ==
  /\ gui = "l239"
  /\ graph_data' = << >>
  /\ start_button' = "disabled"
  /\ stop_button' = "normal"
  /\ gui' = "l250"
  /\ UNCHANGED << ffmpeg_process, running_event, status_var, stop_caller,
                  gui_wait, after_log, after_graphs, monitor_thread >>
  /\ UNCHANGED << thrVars, chanVars, statVars, fileVars, envVars >>

\* Lines 250-256: running_event.set(); the thread is created and started.
G_StartThread ==
  /\ gui = "l250"
  /\ running_event' = TRUE
  /\ monitor_thread' = monitor_thread + 1
  /\ pc' = [pc EXCEPT ![monitor_thread + 1] = "l283"]
  /\ gui' = "l259"
  /\ UNCHANGED << ffmpeg_process, start_button, stop_button, status_var,
                  stop_caller, gui_wait, after_log, after_graphs, graph_data >>
  /\ UNCHANGED << line, ref, parsed, missed_read >>
  /\ UNCHANGED << chanVars, statVars, fileVars, envVars >>

\* What update_graphs appends (lines 414-423): the elapsed time, the
\* averages as the quotient it computes, numerator and denominator kept
\* apart (0.0 when the denominator is 0), and the missed-packet counter.
Snapshot(e) ==
  [ elapsed   |-> e,
    fps_num   |-> sum_fps,
    fps_den   |-> total_frames,
    speed_num |-> SeqSum(speed_values),
    speed_den |-> Len(speed_values),
    missed    |-> missed_packets_count ]

\* Line 414: current_time = time.time() - self.start_time.  time.time() is
\* the wall clock.  Elapsed values are kept as ranks: a reading taken later
\* is one more than the last one (1 for the first), unless the system clock
\* was set back in between (a fault of the environment), when it is any
\* value up to the last one.
NextElapsed ==
  IF graph_data = << >> THEN 1 ELSE graph_data[Len(graph_data)].elapsed + 1

AppendPoint ==
  \/ /\ graph_data' = Append(graph_data, Snapshot(NextElapsed))
     /\ UNCHANGED budget
  \/ /\ graph_data # << >>
     /\ Fault
     /\ \E e \in 0..(NextElapsed - 1) :
          graph_data' = Append(graph_data, Snapshot(e))

\* Lines 259-261: after(200, update_log_display); update_graphs() (a point
\* and after(1000, update_graphs) if running_event is set); status.
G_Schedule ==
  /\ gui = "l259"
  /\ after_log' = after_log + 1
  /\ IF running_event
     THEN /\ AppendPoint
          /\ after_graphs' = after_graphs + 1
     ELSE UNCHANGED << graph_data, after_graphs, budget >>
  /\ status_var' = "Monitoring..."
  /\ gui' = "idle"
  /\ UNCHANGED << ffmpeg_process, running_event, start_button, stop_button,
                  stop_caller, gui_wait, monitor_thread >>
  /\ UNCHANGED << thrVars, chanVars, statVars, fileVars, proc, emitted,
                  consumed >>

\* ---------------------------------------------------------------------
\* Main thread: the after() callbacks
\* ---------------------------------------------------------------------

\* update_log_display (lines 380-409): the queue is drained into the log
\* view; while running_event is set the status shows the statistics and the
\* callback reschedules itself.
update_log_display ==
  /\ gui = "idle"
  /\ after_log > 0
  /\ log_queue' = << >>
  /\ IF running_event
     THEN status_var' = "Monitoring..." /\ UNCHANGED after_log
     ELSE after_log' = after_log - 1 /\ UNCHANGED status_var
  /\ UNCHANGED << ffmpeg_process, running_event, start_button, stop_button,
                  gui, stop_caller, gui_wait, after_graphs, graph_data,
                  monitor_thread, published >>
  /\ UNCHANGED << thrVars, statVars, fileVars, envVars >>

\* update_graphs (lines 411-467) called by the timer.
update_graphs ==
  /\ gui = "idle"
  /\ after_graphs > 0
  /\ IF running_event
     THEN /\ Len(graph_data) < MaxSnaps
          /\ AppendPoint
          /\ UNCHANGED after_graphs
     ELSE /\ after_graphs' = after_graphs - 1
          /\ UNCHANGED << graph_data, budget >>
  /\ UNCHANGED << ffmpeg_process, running_event, start_button, stop_button,
                  status_var, gui, stop_caller, gui_wait, after_log,
                  monitor_thread >>
  /\ UNCHANGED << thrVars, chanVars, statVars, fileVars, proc, emitted,
                  consumed >>

\* ---------------------------------------------------------------------
\* Specification
\* ---------------------------------------------------------------------

MonitorStep(t) ==
  \/ T_Popen(t) \/ T_ClearRunning(t) \/ T_PollAfterSleep(t)
  \/ T_LeftoverCall(t) \/ T_LeftoverReturn(t)
  \/ T_CsvExists(t) \/ T_Open(t) \/ T_LoopTest(t)
  \/ T_ReadlineCall(t) \/ T_ReadlineReturn(t)
  \/ T_Frames(t) \/ T_SumFps(t) \/ T_Speed(t)
  \/ T_MissedRead(t) \/ T_Missed(t)
  \/ T_Writerow(t) \/ T_Flush(t) \/ T_PutLine(t) \/ T_PutCsvError(t)
  \/ T_CheckAlive(t) \/ T_Terminate(t) \/ T_WaitCall(t) \/ T_WaitReturn(t)
  \/ T_Kill(t) \/ T_ClearHandle(t) \/ T_PutStopped(t)

StopStep ==
  \/ S_ClearRunning \/ S_CheckAlive \/ S_Terminate \/ S_WaitCall
  \/ S_WaitReturn \/ S_Kill \/ S_Return

StartStep ==
  \/ G_ResetFrames \/ G_ResetSum \/ G_ResetSpeed \/ G_ResetMissed
  \/ G_ResetGraphs \/ G_StartThread \/ G_Schedule

Next ==
  \/ StartClicked
  \/ StartRejected
  \/ G_ErrorDismissed
  \/ StopClicked
  \/ StopStep
  \/ StartStep
  \/ update_log_display
  \/ update_graphs
  \/ \E t \in Threads : MonitorStep(t)
  \/ \E p \in Threads : ProbeEmit(p)
  \/ \E p \in Threads : ProbeExit(p)

Spec == Init /\ [][Next]_vars

\* --- The same program under smaller budgets of the environment ---

ReplaceLines == 1     \* lines of probe output in SpecReplace

\* A single session (Start is accepted once), with every action and every
\* fault.
InitSingle ==
  InitWith([sessions |-> 1, lines |-> MaxLines, faults |-> MaxFaults,
            kinds |-> Lines])
SpecSingle == InitSingle /\ [][Next]_vars

\* Session replacement: MaxSessions sessions whose threads overlap, in an
\* environment without faults and with the after() callbacks not fired.
InitReplace ==
  InitWith([sessions |-> MaxSessions, lines |-> ReplaceLines, faults |-> 0,
            kinds |-> Lines])
NextReplace ==
  \/ StartClicked
  \/ StopClicked
  \/ StopStep
  \/ StartStep
  \/ \E t \in Threads : MonitorStep(t)
  \/ \E p \in Threads : ProbeEmit(p)
  \/ \E p \in Threads : ProbeExit(p)
SpecReplace == InitReplace /\ [][NextReplace]_vars

RaceLines == 2        \* lines of probe output in SpecRace

\* Overlapping sessions whose probes write RaceLines lines, all of them
\* reports of missed packets, and run until they are killed.  The updates
\* of lines 320-323 are then never reached and are left out.
InitRace ==
  InitWith([sessions |-> MaxSessions, lines |-> RaceLines, faults |-> 0,
            kinds |-> {MissedLine}])
RaceStep(t) ==
  \/ T_Popen(t) \/ T_ClearRunning(t) \/ T_PollAfterSleep(t)
  \/ T_LeftoverCall(t) \/ T_LeftoverReturn(t)
  \/ T_CsvExists(t) \/ T_Open(t) \/ T_LoopTest(t)
  \/ T_ReadlineCall(t) \/ T_ReadlineReturn(t)
  \/ T_MissedRead(t) \/ T_Missed(t)
  \/ T_Writerow(t) \/ T_Flush(t) \/ T_PutLine(t) \/ T_PutCsvError(t)
  \/ T_CheckAlive(t) \/ T_Terminate(t) \/ T_WaitCall(t) \/ T_WaitReturn(t)
  \/ T_Kill(t) \/ T_ClearHandle(t) \/ T_PutStopped(t)
NextRace ==
  \/ StartClicked
  \/ StopClicked
  \/ StopStep
  \/ StartStep
  \/ \E t \in Threads : RaceStep(t)
  \/ \E p \in Threads : ProbeEmit(p)
SpecRace == InitRace /\ [][NextRace]_vars

WindowLines == 2      \* lines of probe output in SpecWindow

\* A session at work on a long stream: its thread is at the loop test after
\* n lines, alternately FpsLine and FastLine, were read, folded, logged,
\* published and displayed, n being one less than the capacity of the speed
\* window or the capacity itself; the probe writes WindowLines lines more.
WindowLine(i) ==
  [src |-> 1, seq |-> i, text |-> IF i % 2 = 1 THEN FpsLine ELSE FastLine]

InitWindow ==
  \E n \in {SpeedWindow - 1, SpeedWindow} :
    /\ budget = [sessions |-> 0, lines |-> WindowLines, faults |-> 0,
                 kinds |-> {FpsLine, FastLine}]
    /\ ffmpeg_process = 1
    /\ monitor_thread = 1
    /\ running_event = TRUE
    /\ log_queue = << >>
    /\ total_frames = n
    /\ sum_fps = SeqSum([i \in 1..n |-> WindowLine(i).text.fps])
    /\ speed_values = [i \in 1..n |-> WindowLine(i).text.speed]
    /\ missed_packets_count = 0
    /\ graph_data = << [elapsed |-> 1, fps_num |-> 0, fps_den |-> 0,
                        speed_num |-> 0, speed_den |-> 0, missed |-> 0] >>
    /\ start_button = "disabled"
    /\ stop_button = "normal"
    /\ status_var = "Monitoring..."
    /\ gui = "idle"
    /\ stop_caller = "start"
    /\ gui_wait = None
    /\ after_log = 1
    /\ after_graphs = 1
    /\ pc = [t \in Threads |-> IF t = 1 THEN "l310" ELSE "none"]
    /\ line = [t \in Threads |-> IF t = 1 THEN WindowLine(n) ELSE NoLine]
    /\ ref = [t \in Threads |-> None]
    /\ csv_exists = [t \in Threads |-> FALSE]
    /\ missed_read = [t \in Threads |-> 0]
    /\ buf = [t \in Threads |-> << >>]
    /\ proc = [p \in Threads |-> IF p = 1 THEN "alive" ELSE "unborn"]
    /\ emitted = [p \in Threads |-> IF p = 1 THEN n ELSE 0]
    /\ consumed = [p \in Threads |-> IF p = 1 THEN n ELSE 0]
    /\ csv_present = TRUE
    /\ csv_file = << HeaderRow >> \o [i \in 1..n |-> CsvRow(WindowLine(i))]
    /\ published = [t \in Threads |->
                      IF t = 1 THEN [i \in 1..n |-> Msg(1, "raw", WindowLine(i))]
                      ELSE << >>]
    /\ parsed = { WindowLine(i) : i \in 1..n }
    /\ folded = [i \in 1..n |-> WindowLine(i)]
    /\ missed_folded = 0
    /\ io_failed = {}

LoopStep(t) ==
  \/ T_LoopTest(t) \/ T_ReadlineCall(t) \/ T_ReadlineReturn(t)
  \/ T_Frames(t) \/ T_SumFps(t) \/ T_Speed(t)
  \/ T_Writerow(t) \/ T_Flush(t) \/ T_PutLine(t)
NextWindow ==
  \/ \E t \in Threads : LoopStep(t)
  \/ \E p \in Threads : ProbeEmit(p)
  \/ update_log_display
  \/ update_graphs
SpecWindow == InitWindow /\ [][NextWindow]_vars

\* ---------------------------------------------------------------------
\* Vocabulary of the properties
\* ---------------------------------------------------------------------

Ended(t)   == pc[t] \in {"done", "crashed"}
Live(t)    == pc[t] \notin {"none", "done", "crashed"}

\* The thread is inside the ingestion loop of lines 310-337.
Ingesting(t) ==
  pc[t] \in {"l310", "l311", "l311_read", "l320", "l321", "l323", "l325",
             "l325_store", "l327", "l336", "l337"}

\* stop_monitoring has returned and nothing was started since: to the main
\* loop (Stop disabled by line 273) or into start_monitoring (before the
\* thread of the next session is created).
StopReturned ==
  /\ monitor_thread > 0
  /\ \/ gui = "idle" /\ stop_button = "disabled"
     \/ gui \in {"l234", "l235", "l236", "l237", "l239", "l250"}

\* The session whose statistics the aggregator holds: the reset of lines
\* 234-237 belongs to the session whose thread line 251 is about to create.
CurrentSession ==
  IF gui \in {"l235", "l236", "l237", "l239", "l250"}
  THEN monitor_thread + 1 ELSE monitor_thread

Kinds(t) == { published[t][i][2] : i \in 1..Len(published[t]) }

\* Rows of the log file that hold line l.
RowCount(l) ==
  Cardinality({ i \in 1..Len(csv_file) :
                  csv_file[i].src = l.src /\ csv_file[i].seq = l.seq })

\* Line l is between readline and the flush of its row.
InProgress(l) ==
  \E t \in Threads :
    line[t] = l /\ pc[t] \in {"l320", "l321", "l323", "l325", "l325_store",
                               "l327", "l336"}

\* The write or the flush of l's row raised.
WriteFailed(l) == \E t \in io_failed : line[t] = l

\* fps values of the folded lines, in the order they were folded.
RECURSIVE FpsOf(_)
FpsOf(s) ==
  IF s = << >> THEN << >>
  ELSE LET f == parse_ffmpeg_line(Head(s).text).fps IN
       (IF f = Absent THEN << >> ELSE << f >>) \o FpsOf(Tail(s))

RECURSIVE SpeedOf(_)
SpeedOf(s) ==
  IF s = << >> THEN << >>
  ELSE LET f == parse_ffmpeg_line(Head(s).text).speed IN
       (IF f = Absent THEN << >> ELSE << f >>) \o SpeedOf(Tail(s))

RECURSIVE MissedOf(_)
MissedOf(s) ==
  IF s = << >> THEN << >>
  ELSE LET f == parse_ffmpeg_line(Head(s).text).missed_packets IN
       (IF f = Absent THEN << >> ELSE << f >>) \o MissedOf(Tail(s))

\* num/den = num2/den2 as the code computes averages (0.0 for den = 0).
SameAverage(num, den, num2, den2) ==
  LET n1 == IF den = 0 THEN 0 ELSE num
      d1 == IF den = 0 THEN 1 ELSE den
      n2 == IF den2 = 0 THEN 0 ELSE num2
      d2 == IF den2 = 0 THEN 1 ELSE den2
  IN n1 * d2 = n2 * d1

\* ---------------------------------------------------------------------
\* C1  Session replacement: at most one thread is in the ingestion loop
\* and at most one probe is alive at any time, and whenever the thread of
\* a session exists, the threads of all earlier sessions have ended and
\* their probes have exited.  (The code violates this.)
\* ---------------------------------------------------------------------
C1_SessionReplacement ==
  /\ Cardinality({ t \in Threads : Ingesting(t) }) <= 1
  /\ Cardinality({ p \in Threads : Running(p) }) <= 1
  /\ \A t \in Threads : \A u \in Threads :
       (u < t /\ pc[t] # "none") => (Ended(u) /\ ~Running(u))

\* ---------------------------------------------------------------------
\* C2  When stop_monitoring has returned, the ingestion thread of the
\* stopped session has ended, so it updates, logs and publishes nothing
\* more.  (The code violates this: stop_monitoring does not join.)
\* ---------------------------------------------------------------------
C2_StopWaitsForThread ==
  StopReturned => \A t \in Threads : ~Live(t)

\* ---------------------------------------------------------------------
\* C3  After the reset of a session start, only lines read from that
\* session's probe are folded into the aggregator, and when no update is
\* in flight the aggregator is the fold of exactly those lines.
\* (The code violates this.)
\* ---------------------------------------------------------------------
C3_AggregatorOfOneSession ==
  /\ \A i \in 1..Len(folded) : folded[i].src = CurrentSession
  /\ (gui \notin {"l235", "l236", "l237"}
        /\ \A t \in Threads :
             pc[t] \notin {"l321", "l323", "l325", "l325_store"})
     => /\ total_frames = Len(FpsOf(folded))
        /\ sum_fps = SeqSum(FpsOf(folded))
        /\ speed_values = SpeedOf(folded)
        /\ missed_packets_count = SeqSum(MissedOf(folded))

\* ---------------------------------------------------------------------
\* C4  Every point the periodic update_graphs callback appends (the
\* first point of a series is appended by start_monitoring itself)
\* reports an average fps equal to the average of some whole prefix of the
\* fps values folded so far.
\* (The code violates this: count and sum are updated by two statements.)
\* ---------------------------------------------------------------------
C4_NoTornRead ==
  \A i \in 2..Len(graph_data) :
    \E n \in 0..Len(FpsOf(folded)) :
      SameAverage(graph_data[i].fps_num, graph_data[i].fps_den,
                  SeqSum(SubSeq(FpsOf(folded), 1, n)), n)

C6_TerminalMessageLast ==
  \A t \in Threads :
    (Ended(t) /\ proc[t] # "unborn" /\ "failed_to_start" \notin Kinds(t))
    => /\ published[t] # << >>
       /\ published[t][Len(published[t])][2] = "stopped"
       /\ Cardinality({ i \in 1..Len(published[t]) :
                          published[t][i][2] = "stopped" }) = 1

\* ---------------------------------------------------------------------
\* C7  When the thread has ended because the probe's output ended, with
\* no stop requested, running_event is clear (so update_graphs appends no
\* more points).  (The code violates this.)
\* ---------------------------------------------------------------------
C7_IdleAfterEndOfStream ==
  \A t \in Threads :
    ( /\ t = monitor_thread
      /\ pc[t] = "done"
      /\ "stopped" \in Kinds(t)
      /\ "csv_error" \notin Kinds(t)
      /\ gui = "idle"
      /\ stop_button = "normal" )
    => ~running_event

\* ---------------------------------------------------------------------
\* C8  A thread whose probe could not be spawned, or had exited after the
\* grace period, ends without an escaped exception, with a diagnostic
\* published, running_event clear, and without any aggregator update or
\* log row.  (The code violates this for spawn errors other than
\* FileNotFoundError.)
\* ---------------------------------------------------------------------
C8_LaunchFailureReported ==
  \A t \in Threads :
    (Ended(t) /\ (proc[t] = "unborn" \/ "failed_to_start" \in Kinds(t)))
    => /\ pc[t] = "done"
       /\ Kinds(t) \cap {"ffmpeg_not_found", "failed_to_start"} # {}
       /\ (t = monitor_thread /\ gui = "idle") => ~running_event
       /\ \A l \in parsed : l.src # t

\* ---------------------------------------------------------------------
\* C9  A thread that met a failure of the log file ends without an
\* escaped exception, with the error published and its probe terminated;
\* the raw lines it published are in the queue in the order read.
\* (The code violates this when stop_monitoring clears the handle between
\* the statements of lines 341-346.)
\* ---------------------------------------------------------------------
C9_PersistenceFailureHandled ==
  /\ \A t \in io_failed :
       Ended(t) => /\ pc[t] = "done"
                   /\ "csv_error" \in Kinds(t)
                   /\ ~Running(t)
  /\ \A i \in 1..Len(log_queue) : \A j \in 1..Len(log_queue) :
       ( /\ i < j
         /\ log_queue[i][2] = "raw" /\ log_queue[j][2] = "raw"
         /\ log_queue[i][3].src = log_queue[j][3].src )
       => log_queue[i][3].seq < log_queue[j][3].seq

\* ---------------------------------------------------------------------
\* C10  When stop_monitoring has returned, no probe is running.
\* (The code violates this when stop_monitoring runs before the thread
\* has executed Popen.)
\* ---------------------------------------------------------------------
C10_NoProbeAfterStop ==
  StopReturned => \A p \in Threads : ~Running(p)

\* ---------------------------------------------------------------------
\* C11  A start rejected at validation (lines 212-228) changes nothing:
\* on entering and on leaving the error dialog the process handle, the
\* threads and probes, the running flag, the aggregator, the snapshot
\* series, the buttons, the status and the pending callbacks are all as
\* they were.
\* ---------------------------------------------------------------------
C11_RejectedStartChangesNothing ==
  [][ (gui' # gui /\ (gui' \in Rejections \/ gui \in Rejections))
      => UNCHANGED << ffmpeg_process, monitor_thread, running_event, pc, proc,
                      total_frames, sum_fps, speed_values, missed_packets_count,
                      graph_data, start_button, stop_button, status_var,
                      after_log, after_graphs, log_queue, csv_file >> ]_vars

\* The error dialog of a rejected start is open after a session has run
\* and was stopped: there are statistics and a series that a reset would
\* have cleared.
C11_Witness ==
  /\ gui \in Rejections
  /\ monitor_thread > 0
  /\ total_frames > 0
  /\ graph_data # << >>
  /\ status_var = "Stopped"

\* The positions of the main thread inside stop_monitoring.
InStop == {"l264", "l265", "l266", "l268", "l268_wait", "l270", "l271"}

\* No session is running: no thread is alive, no probe runs, the flag is
\* clear and the handle is None.
NotRunning ==
  /\ \A t \in Threads : ~Live(t)
  /\ \A p \in Threads : ~Running(p)
  /\ ~running_event
  /\ ffmpeg_process = None

\* ---------------------------------------------------------------------
\* C12  stop_monitoring on a session that is not running changes nothing:
\* none of its steps changes the handle, the flag, the status, the
\* buttons, the aggregator or the snapshot series.  (The code violates
\* this: the status of a never-started session goes from "Idle" to
\* "Stopped".)
\* ---------------------------------------------------------------------
C12_StopIdempotent ==
  [][ (gui \in InStop /\ gui' # gui /\ NotRunning)
      => UNCHANGED << ffmpeg_process, running_event, status_var, start_button,
                      stop_button, total_frames, sum_fps, speed_values,
                      missed_packets_count, graph_data >> ]_vars

\* ---------------------------------------------------------------------
\* C13  At most one update_graphs callback is pending at any time.
\* (The code violates this: stop_monitoring cancels no callback, and a
\* start that follows within the second schedules another one.)
\* ---------------------------------------------------------------------
C13_OneSnapshotTimer == after_graphs <= 1

\* ---------------------------------------------------------------------
\* C14  The snapshot series of a session is strictly increasing in the
\* elapsed time: every point is later than all points before it.
\* (The code violates this: the elapsed time is a difference of wall-clock
\* readings.)
\* ---------------------------------------------------------------------
C14_ElapsedIncreasing ==
  \A i \in 1..Len(graph_data) : \A j \in 1..Len(graph_data) :
    i < j => graph_data[i].elapsed < graph_data[j].elapsed

\* ---------------------------------------------------------------------
\* C15  Whatever the sessions have appended, the log file holds the header
\* exactly once, as its first row.  (The code violates this: the test of
\* line 303 and the open of line 305 are not one step.)
\* ---------------------------------------------------------------------
C15_HeaderOnceFirst ==
  csv_file # << >>
  => /\ csv_file[1] = HeaderRow
     /\ Cardinality({ i \in 1..Len(csv_file) : csv_file[i] = HeaderRow }) = 1

\* The record a row of the log file is read back as: an empty field is an
\* absent value, any other field is the value written.
ReadRow(row) ==
  [ fps            |-> row.fps,
    speed          |-> row.speed,
    missed_packets |-> row.missed,
    max_delay      |-> (row.max_delay_reached = 1),
    decode_errors  |-> row.decode_errors ]

\* ---------------------------------------------------------------------
\* C16  Every row of the log file reads back as the record parsed from its
\* line: a field is empty exactly when the value is absent.  (The code
\* violates this: a missed-packet count of 0 is written as empty.)
\* ---------------------------------------------------------------------
C16_RowRoundTrip ==
  \A l \in parsed : \A i \in 1..Len(csv_file) :
    (csv_file[i].src = l.src /\ csv_file[i].seq = l.seq)
    => ReadRow(csv_file[i]) = parse_ffmpeg_line(l.text)

\* ---------------------------------------------------------------------
\* C17  The missed-packet counter never decreases from one point of the
\* snapshot series to the next, and, when no update or reset of it is in
\* flight, it is the sum of the missed-packet values folded in since its
\* reset.  (The code violates this when the threads of two
\* sessions overlap: the update of line 325 is not atomic.)
\* ---------------------------------------------------------------------
C17_MissedCounter ==
  /\ \A i \in 1..Len(graph_data) : \A j \in 1..Len(graph_data) :
       i < j => graph_data[i].missed <= graph_data[j].missed
  /\ (gui \notin {"l235", "l236", "l237"}
        /\ \A t \in Threads : pc[t] # "l325_store")
     => missed_packets_count = missed_folded

\* The last n elements of s (all of s if it has fewer).
LastN(s, n) ==
  IF Len(s) <= n THEN s ELSE SubSeq(s, Len(s) - n + 1, Len(s))

C19_RowBeforePublishInReadOrder ==
  /\ \A i \in 1..Len(log_queue) :
       log_queue[i][2] = "raw" => RowCount(log_queue[i][3]) >= 1
  /\ \A i, j \in 1..Len(log_queue) :
       ( /\ i < j
         /\ log_queue[i][2] = "raw"
         /\ log_queue[j][2] = "raw"
         /\ log_queue[i][3].src = log_queue[j][3].src )
       => log_queue[i][3].seq < log_queue[j][3].seq


\* ---------------------------------------------------------------------
\* C20  Each ingestion thread reads from, waits for, terminates and kills
\* only the probe it spawned itself (probe t is the one spawned by thread
\* t), and when it clears the process handle the handle is its own probe's
\* or already empty.
\* ---------------------------------------------------------------------
C20_HandleOwnership ==
  [][ \A t \in Threads :
        /\ ref'[t] # None => ref'[t] = t
        /\ (pc[t] \in {"l342", "l346"} /\ pc'[t] # pc[t])
           => \A p \in Threads \ {t} : proc'[p] = proc[p]
        /\ (pc[t] = "l347" /\ pc'[t] = "l348")
           => ffmpeg_process \in {None, t} ]_vars


\* ---------------------------------------------------------------------
\* C21  No orphaned probe: once every ingestion thread has ended and no
\* handler of the main thread is under way, a probe that is still running
\* is the one the process handle refers to (so that a later stop reaches
\* it); no probe is left running with no handle referring to it.
\* ---------------------------------------------------------------------
C21_NoOrphanedProbe ==
  ( /\ gui = "idle"
    /\ \A t \in Threads : ~Live(t) )
  => \A p \in Threads : Running(p) => ffmpeg_process = p


\* ---------------------------------------------------------------------
\* C22  No message is left in the outbound channel after the poller has
\* stopped: once no poll is scheduled, every ingestion thread has ended
\* and no handler of the main thread is under way, the channel is empty
\* (nothing waits there for the poller of a later session).
\* ---------------------------------------------------------------------
C22_NothingLeftInChannel ==
  ( /\ after_log = 0
    /\ gui = "idle"
    /\ \A t \in Threads : ~Live(t) )
  => log_queue = << >>

====
